---- MODULE Spec2Model ----
(***************************************************************************)
(* GCAFO Booking API (src/server.js): the PostgreSQL store, the JWT        *)
(* middleware and the request handlers, one action per SQL statement a     *)
(* handler awaits.  Two clients issue requests concurrently; a handler     *)
(* that awaits several statements is interleaved with the other client     *)
(* between them.                                                           *)
(***************************************************************************)
EXTENDS Integers, Sequences, FiniteSets, TLC

\* ------------------------------------------------------------ bounds
\* rows the users_id_seq sequence may hand out under SpecAuth
MaxUsers == 2
\* bookings two concurrent clients make under Spec
MaxBookings == 1
\* bookings (and reviews) one client makes under SpecRatings
MaxRatings == 3
\* last instant of the clock under SpecGate and SpecAuth
MaxClock == 1
\* providers in the directory under SpecList
MaxListed == 2
\* services a provider lists
MaxServices == 1

\* ------------------------------------------------- program constants
\* expiresIn: '24h', in clock instants of 24 hours
TokenTTL == 1
\* const { page = 1, limit = 10 } = req.query
DefaultPage == 1
DefaultLimit == 10

\* the two concurrent clients
Procs == {"c1", "c2"}

\* JavaScript undefined (a missing body field), SQL NULL once stored
Undefined == "<undefined>"

VARIABLES
    users,       \* table users
    profiles,    \* table prestataire_profiles
    services,    \* table services
    bookings,    \* table bookings
    reviews,     \* table reviews
    messages,    \* table messages
    seq,         \* the SERIAL sequences: last value handed out, per table
    now,         \* the clock
    pc,          \* per client: "idle" or the statement its request awaits
    req,         \* per client: the request in flight (body, locals)
    last,        \* the last response sent
    registered,  \* history: the 201 responses of Register
    midway       \* history: requests that failed after their first write

store == <<users, profiles, services, bookings, reviews, messages, seq>>
vars == <<store, now, pc, req, last, registered, midway>>

\* --------------------------------------------------------- libraries
\* bcrypt.hash(password, 10): rejects a non-string
BcryptHash(password) == [cost |-> 10, of |-> password]
\* bcrypt.compare(password, hash): rejects (throws) on a non-string password
BcryptThrows(password) == password = Undefined
BcryptCompare(password, hash) == hash.of = password

NoToken == [userId |-> 0, email |-> "", role |-> "", exp |-> 0, sig |-> "none"]
\* the empty string after "Bearer "
EmptyToken == [NoToken EXCEPT !.sig = "empty"]
\* a token not signed with JWT_SECRET
JunkToken == [NoToken EXCEPT !.sig = "forged"]

\* jwt.sign(payload, JWT_SECRET, {expiresIn: '24h'}) at instant t
JwtSign(userId, email, role, t) ==
    [userId |-> userId, email |-> email, role |-> role,
     exp |-> t + TokenTTL, sig |-> "hs256"]
\* jwt.verify(token, JWT_SECRET): err unless well signed and not expired
JwtVerifyOk(tok, t) == tok.sig = "hs256" /\ t < tok.exp
Claims(tok) == [userId |-> tok.userId, email |-> tok.email, role |-> tok.role]
NoUser == Claims(NoToken)

\* --------------------------------------------------------- responses
NoReq == [kind |-> "none"]
\* status, the body's error or message, its token, its rows
Response(status, text, token, rows) ==
    [status |-> status, text |-> text, token |-> token, rows |-> rows]
\* res.status(status).json(...)
Respond(status, text, token) ==
    last' = Response(status, text, token, <<>>)

\* ---------------------------------------------- POST /api/auth/register
\* a faulty lookup that finds client accounts only
EmailRowsOfClients(table, email) ==
    {u \in table : u.email = email /\ u.role = "client"}

EmailRows(table, email) == {u \in table : u.email = email}

\* a faulty users table, declared without UNIQUE on email
UsersInsertOkNoUnique(table, row) ==
    /\ row.email # Undefined
    /\ row.role \in {"client", "prestataire"}

\* the users table's constraints on a new row
UsersInsertOk(table, row) ==
    /\ row.email # Undefined                       \* email NOT NULL
    /\ EmailRows(table, row.email) = {}            \* email UNIQUE
    /\ row.role \in {"client", "prestataire"}      \* role CHECK, NOT NULL

\* SELECT id FROM users WHERE email = $1; 400 if a row; bcrypt.hash
RegisterSelect(p, email, password, role, ville) ==
    LET r == [kind |-> "register", email |-> email, password |-> password,
              role |-> role, ville |-> ville, hashed |-> BcryptHash(password),
              newUser |-> 0]
    IN  /\ pc[p] = "idle"
        /\ IF EmailRows(users, email) # {}
           THEN /\ Respond(400, "Email deja utilise", NoToken)
                /\ UNCHANGED <<pc, req>>
           ELSE IF BcryptThrows(password)
           THEN /\ Respond(500, "Erreur serveur", NoToken)
                /\ UNCHANGED <<pc, req>>
           ELSE /\ pc' = [pc EXCEPT ![p] = "reg_insert"]
                /\ req' = [req EXCEPT ![p] = r]
                /\ UNCHANGED last
        /\ UNCHANGED <<store, now, registered, midway>>

\* the 201 response of Register: jwt.sign and res.status(201)
RegisterDone(p, r, id) ==
    LET token == JwtSign(id, r.email, r.role, now)
    IN  /\ Respond(201, "Utilisateur cree avec succes", token)
        /\ registered' = registered \cup
               {[userId |-> id, email |-> r.email, role |-> r.role,
                 password |-> r.password]}
        /\ pc' = [pc EXCEPT ![p] = "idle"]
        /\ req' = [req EXCEPT ![p] = NoReq]

\* INSERT INTO users ... RETURNING *
RegisterInsertUser(p) ==
    LET r == req[p]
        id == seq.users + 1
        row == [id |-> id, email |-> r.email, password |-> r.hashed,
                role |-> r.role, ville |-> r.ville, created_at |-> now]
    IN  /\ pc[p] = "reg_insert"
        /\ seq' = [seq EXCEPT !.users = id]
        /\ IF ~UsersInsertOk(users, row)
           THEN /\ Respond(500, "Erreur serveur", NoToken)
                /\ pc' = [pc EXCEPT ![p] = "idle"]
                /\ req' = [req EXCEPT ![p] = NoReq]
                /\ UNCHANGED <<users, registered>>
           ELSE /\ users' = users \cup {row}
                /\ IF r.role = "prestataire"
                   THEN /\ pc' = [pc EXCEPT ![p] = "reg_profile"]
                        /\ req' = [req EXCEPT ![p] = [r EXCEPT !.newUser = id]]
                        /\ UNCHANGED <<last, registered>>
                   ELSE RegisterDone(p, r, id)
        /\ UNCHANGED <<profiles, services, bookings, reviews, messages, now, midway>>

\* a faulty default row: the rating columns left NULL instead of DEFAULT 0
DefaultProfileUnrated(id, userId) ==
    [id |-> id, user_id |-> userId, metier |-> "General",
     description |-> Undefined, annees_experience |-> Undefined,
     tarif_horaire |-> Undefined, zone_intervention |-> Undefined,
     adresse |-> Undefined, portfolio |-> Undefined,
     disponibilites |-> Undefined,
     note_moyenne |-> -1, nombre_avis |-> 0]

\* the row INSERT INTO prestataire_profiles (user_id, metier) makes
DefaultProfile(id, userId) ==
    [id |-> id, user_id |-> userId, metier |-> "General",
     description |-> Undefined, annees_experience |-> Undefined,
     tarif_horaire |-> Undefined, zone_intervention |-> Undefined,
     adresse |-> Undefined, portfolio |-> Undefined,
     disponibilites |-> Undefined,
     note_moyenne |-> 0, nombre_avis |-> 0]

\* INSERT INTO prestataire_profiles (user_id, metier) VALUES ($1, 'General')
RegisterInsertProfile(p) ==
    LET r == req[p]
        id == seq.profiles + 1
    IN  /\ pc[p] = "reg_profile"
        /\ seq' = [seq EXCEPT !.profiles = id]
        /\ profiles' = profiles \cup {DefaultProfile(id, r.newUser)}
        /\ RegisterDone(p, r, r.newUser)
        /\ UNCHANGED <<users, services, bookings, reviews, messages, now, midway>>

\* the store fails at the profile INSERT: catch, 500
RegisterFail(p) ==
    /\ pc[p] = "reg_profile"
    /\ Respond(500, "Erreur serveur", NoToken)
    /\ midway' = midway \cup {[kind |-> "register", id |-> req[p].newUser]}
    /\ pc' = [pc EXCEPT ![p] = "idle"]
    /\ req' = [req EXCEPT ![p] = NoReq]
    /\ UNCHANGED <<store, now, registered>>

\* ------------------------------------------------- POST /api/auth/login
\* a faulty login that signs every token with the role "client"
LoginOutcomeAsClient(table, email, password, t) ==
    LET rows == EmailRows(table, email)
    IN  IF rows = {}
        THEN [status |-> 401, error |-> "Email ou mot de passe incorrect",
              token |-> NoToken]
        ELSE LET user == CHOOSE u \in rows : TRUE
             IN  IF BcryptThrows(password)
                 THEN [status |-> 500, error |-> "Erreur serveur",
                       token |-> NoToken]
                 ELSE IF ~BcryptCompare(password, user.password)
                 THEN [status |-> 401,
                       error |-> "Email ou mot de passe incorrect",
                       token |-> NoToken]
                 ELSE [status |-> 200, error |-> "Connexion reussie",
                       token |-> JwtSign(user.id, user.email, "client", t)]

\* the handler's response as a function of the table and the body
LoginOutcome(table, email, password, t) ==
    LET rows == EmailRows(table, email)
    IN  IF rows = {}
        THEN [status |-> 401, error |-> "Email ou mot de passe incorrect",
              token |-> NoToken]
        ELSE LET user == CHOOSE u \in rows : TRUE
             IN  IF BcryptThrows(password)
                 THEN [status |-> 500, error |-> "Erreur serveur",
                       token |-> NoToken]
                 ELSE IF ~BcryptCompare(password, user.password)
                 THEN [status |-> 401,
                       error |-> "Email ou mot de passe incorrect",
                       token |-> NoToken]
                 ELSE [status |-> 200, error |-> "Connexion reussie",
                       token |-> JwtSign(user.id, user.email, user.role, t)]

\* SELECT * FROM users WHERE email = $1; bcrypt.compare; jwt.sign
Login(p, email, password) ==
    LET r == [kind |-> "login", email |-> email, password |-> password]
        out == LoginOutcome(users, email, password, now)
    IN  /\ pc[p] = "idle"
        /\ Respond(out.status, out.error, out.token)
        /\ UNCHANGED <<store, now, pc, req, registered, midway>>

\* ------------------------------------------------- authenticateToken
\* an Authorization header, split on ' ': no header, "Bearer",
\* "Bearer " and "Bearer <token>"
SchemePart == [NoToken EXCEPT !.sig = "Bearer"]
NoHeader == <<>>
Bearer(tok) == <<SchemePart, tok>>

\* a faulty middleware that checks the signature and not the expiry
AuthenticateTokenNoExpiry(hdr, t) ==
    LET token == IF Len(hdr) >= 2 THEN hdr[2] ELSE NoToken
    IN  IF token.sig \in {"none", "empty"}
        THEN [status |-> 401, error |-> "Token requis", user |-> NoUser]
        ELSE IF token.sig # "hs256"
        THEN [status |-> 403, error |-> "Token invalide", user |-> NoUser]
        ELSE [status |-> 0, error |-> "", user |-> Claims(token)]

\* authHeader && authHeader.split(' ')[1]; 401 if falsy; jwt.verify; 403
AuthenticateToken(hdr, t) ==
    LET token == IF Len(hdr) >= 2 THEN hdr[2] ELSE NoToken
    IN  IF token.sig \in {"none", "empty"}
        THEN [status |-> 401, error |-> "Token requis", user |-> NoUser]
        ELSE IF ~JwtVerifyOk(token, t)
        THEN [status |-> 403, error |-> "Token invalide", user |-> NoUser]
        ELSE [status |-> 0, error |-> "", user |-> Claims(token)]

\* the tokens Register and Login have signed, or sign on request, up to t
Issued(t) ==
    UNION {{JwtSign(u.id, u.email, u.role, i) : i \in u.created_at..t} :
           u \in users}

\* the headers a client can send at instant t
Headers(t) ==
    {NoHeader, <<SchemePart>>, Bearer(EmptyToken), Bearer(JunkToken)}
        \cup {Bearer(tok) : tok \in Issued(t)}

\* the middleware turned the request down: its response, nothing else
Rejected(auth) ==
    /\ Respond(auth.status, auth.error, NoToken)
    /\ UNCHANGED <<store, now, pc, req, registered, midway>>

\* catch (error): res.status(500), after a statement the store refused
ServerError == Respond(500, "Erreur serveur", NoToken)

\* -------------------------------------- PUT /api/prestataires/profile
ProfileFields ==
    {"metier", "description", "annees_experience", "tarif_horaire",
     "zone_intervention", "adresse", "portfolio", "disponibilites"}

\* a faulty UPDATE that also resets the profile's rating aggregates
UpdateProfileResetting(p, hdr, body) ==
    LET auth == AuthenticateToken(hdr, now)
        rows == {q \in profiles : q.user_id = auth.user.userId}
        new(q) == [f \in DOMAIN q |->
                      IF f \in ProfileFields THEN body[f]
                      ELSE IF f \in {"note_moyenne", "nombre_avis"} THEN 0
                      ELSE q[f]]
    IN  /\ pc[p] = "idle"
        /\ IF auth.status # 0 THEN Rejected(auth)
           ELSE /\ IF rows = {}
                   THEN /\ Respond(404, "Profil non trouve", NoToken)
                        /\ UNCHANGED profiles
                   ELSE IF body.metier = Undefined
                   THEN /\ ServerError
                        /\ UNCHANGED profiles
                   ELSE /\ Respond(200, "Profil mis a jour avec succes",
                                   NoToken)
                        /\ profiles' = (profiles \ rows) \cup
                                           {new(q) : q \in rows}
                /\ UNCHANGED <<users, services, bookings, reviews, messages,
                               seq, now, pc, req, registered, midway>>

\* a faulty UPDATE that keeps the stored value of an omitted field
UpdateProfilePatch(p, hdr, body) ==
    LET auth == AuthenticateToken(hdr, now)
        rows == {q \in profiles : q.user_id = auth.user.userId}
        new(q) == [f \in DOMAIN q |->
                      IF f \in ProfileFields /\ body[f] # Undefined
                      THEN body[f] ELSE q[f]]
    IN  /\ pc[p] = "idle"
        /\ IF auth.status # 0 THEN Rejected(auth)
           ELSE /\ IF rows = {}
                   THEN /\ Respond(404, "Profil non trouve", NoToken)
                        /\ UNCHANGED profiles
                   ELSE /\ Respond(200, "Profil mis a jour avec succes",
                                   NoToken)
                        /\ profiles' = (profiles \ rows) \cup
                                           {new(q) : q \in rows}
                /\ UNCHANGED <<users, services, bookings, reviews, messages,
                               seq, now, pc, req, registered, midway>>

\* UPDATE prestataire_profiles SET ... WHERE user_id = $9 RETURNING *
UpdateProfile(p, hdr, body) ==
    LET auth == AuthenticateToken(hdr, now)
        rows == {q \in profiles : q.user_id = auth.user.userId}
        new(q) == [f \in DOMAIN q |->
                      IF f \in ProfileFields THEN body[f] ELSE q[f]]
    IN  /\ pc[p] = "idle"
        /\ IF auth.status # 0 THEN Rejected(auth)
           ELSE /\ IF rows = {}
                   THEN /\ Respond(404, "Profil non trouve", NoToken)
                        /\ UNCHANGED profiles
                   ELSE IF body.metier = Undefined      \* metier NOT NULL
                   THEN /\ ServerError
                        /\ UNCHANGED profiles
                   ELSE /\ Respond(200, "Profil mis a jour avec succes",
                                   NoToken)
                        /\ profiles' = (profiles \ rows) \cup
                                           {new(q) : q \in rows}
                /\ UNCHANGED <<users, services, bookings, reviews, messages,
                               seq, now, pc, req, registered, midway>>

\* ------------------------------------------------- POST /api/services
\* a faulty handler that does not look at the caller's role
CreateServiceAnyRole(p, hdr, nom_service) ==
    LET auth == AuthenticateToken(hdr, now)
        profileRows == {q \in profiles : q.user_id = auth.user.userId}
        id == seq.services + 1
    IN  /\ pc[p] = "idle"
        /\ IF auth.status # 0 THEN Rejected(auth)
           ELSE /\ IF profileRows = {}
                   THEN /\ Respond(404, "Profil prestataire non trouve",
                                   NoToken)
                        /\ UNCHANGED <<services, seq>>
                   ELSE IF nom_service = Undefined
                   THEN /\ ServerError
                        /\ seq' = [seq EXCEPT !.services = id]
                        /\ UNCHANGED services
                   ELSE /\ seq' = [seq EXCEPT !.services = id]
                        /\ services' = services \cup
                               {[id |-> id,
                                 prestataire_id |->
                                     (CHOOSE q \in profileRows : TRUE).id]}
                        /\ Respond(201, "Service cree avec succes", NoToken)
                /\ UNCHANGED <<users, profiles, bookings, reviews, messages,
                               now, pc, req, registered, midway>>

\* SELECT role; 403; SELECT id FROM prestataire_profiles; 404; INSERT
CreateService(p, hdr, nom_service) ==
    LET auth == AuthenticateToken(hdr, now)
        userRows == {u \in users : u.id = auth.user.userId}
        profileRows == {q \in profiles : q.user_id = auth.user.userId}
        id == seq.services + 1
    IN  /\ pc[p] = "idle"
        /\ IF auth.status # 0 THEN Rejected(auth)
           ELSE /\ IF userRows = {}                 \* rows[0] is undefined
                   THEN ServerError /\ UNCHANGED <<services, seq>>
                   ELSE IF (CHOOSE u \in userRows : TRUE).role # "prestataire"
                   THEN /\ Respond(403, "Acces reserve aux prestataires",
                                   NoToken)
                        /\ UNCHANGED <<services, seq>>
                   ELSE IF profileRows = {}
                   THEN /\ Respond(404, "Profil prestataire non trouve",
                                   NoToken)
                        /\ UNCHANGED <<services, seq>>
                   ELSE IF nom_service = Undefined   \* nom_service NOT NULL
                   THEN /\ ServerError
                        /\ seq' = [seq EXCEPT !.services = id]
                        /\ UNCHANGED services
                   ELSE /\ seq' = [seq EXCEPT !.services = id]
                        /\ services' = services \cup
                               {[id |-> id,
                                 prestataire_id |->
                                     (CHOOSE q \in profileRows : TRUE).id]}
                        /\ Respond(201, "Service cree avec succes", NoToken)
                /\ UNCHANGED <<users, profiles, bookings, reviews, messages,
                               now, pc, req, registered, midway>>

\* ------------------------------------------------- POST /api/bookings
\* the bookings table's constraints on a new row
BookingsInsertOk(row) ==
    /\ \E u \in users : u.id = row.client_id           \* REFERENCES users
    /\ \E q \in profiles : q.id = row.prestataire_id   \* REFERENCES profiles
    /\ \E s \in services : s.id = row.service_id       \* REFERENCES services

\* a faulty CHECK that lets a booking only be pending or confirmed
StatutCheckOkOpen(statut) == statut \in {"en_attente", "confirme"}

\* the statut column's CHECK: one of the four, or NULL
StatutCheckOk(statut) ==
    statut \in {"en_attente", "confirme", "annule", "termine", Undefined}

\* INSERT INTO bookings (client_id, prestataire_id, service_id, ...)
CreateBooking(p, hdr, prestataire_id, service_id) ==
    LET auth == AuthenticateToken(hdr, now)
        id == seq.bookings + 1
        row == [id |-> id, client_id |-> auth.user.userId,
                prestataire_id |-> prestataire_id, service_id |-> service_id,
                statut |-> "en_attente"]
    IN  /\ pc[p] = "idle"
        /\ IF auth.status # 0 THEN Rejected(auth)
           ELSE /\ seq' = [seq EXCEPT !.bookings = id]
                /\ IF BookingsInsertOk(row)
                   THEN /\ bookings' = bookings \cup {row}
                        /\ Respond(201, "Reservation creee avec succes",
                                   NoToken)
                   ELSE ServerError /\ UNCHANGED bookings
                /\ UNCHANGED <<users, profiles, services, reviews, messages,
                               now, pc, req, registered, midway>>

\* ORDER BY created_at DESC: the ids of the rows, newest first
RECURSIVE NewestFirst(_)
NewestFirst(ids) ==
    IF ids = {} THEN <<>>
    ELSE LET m == CHOOSE i \in ids : \A j \in ids : j <= i
         IN  <<m>> \o NewestFirst(ids \ {m})

\* -------------------------------------------------- GET /api/bookings
\* the rows of the SELECT: bookings joined to users (twice) and services
BookingRows(userId, statut) ==
    {b \in bookings :
        /\ \E u \in users : u.id = b.prestataire_id      \* JOIN u_presta
        /\ \E u \in users : u.id = b.client_id           \* JOIN u_client
        /\ \E s \in services : s.id = b.service_id       \* JOIN s
        /\ (b.client_id = userId \/ b.prestataire_id = userId)
        /\ (statut # Undefined => b.statut = statut)}

ListBookings(p, hdr, statut) ==
    LET auth == AuthenticateToken(hdr, now)
        rows == BookingRows(auth.user.userId, statut)
    IN  /\ pc[p] = "idle"
        /\ IF auth.status # 0 THEN Rejected(auth)
           ELSE /\ last' = Response(200, "bookings", NoToken,
                                    NewestFirst({b.id : b \in rows}))
                /\ UNCHANGED <<store, now, pc, req, registered, midway>>

\* ---------------------------------------- PUT /api/bookings/:id/status
\* UPDATE bookings SET statut = $1 WHERE id = $2 RETURNING *
UpdateBookingStatus(p, hdr, id, statut) ==
    LET auth == AuthenticateToken(hdr, now)
        rows == {b \in bookings : b.id = id}
    IN  /\ pc[p] = "idle"
        /\ IF auth.status # 0 THEN Rejected(auth)
           ELSE /\ IF rows = {}
                   THEN /\ Respond(404, "Reservation non trouvee", NoToken)
                        /\ UNCHANGED bookings
                   ELSE IF ~StatutCheckOk(statut)
                   THEN ServerError /\ UNCHANGED bookings
                   ELSE /\ bookings' = (bookings \ rows) \cup
                               {[b EXCEPT !.statut = statut] : b \in rows}
                        /\ Respond(200, "Statut mis a jour avec succes",
                                   NoToken)
                /\ UNCHANGED <<users, profiles, services, reviews, messages,
                               seq, now, pc, req, registered, midway>>

\* --------------------------------------------------- POST /api/reviews
\* a faulty SELECT that leaves out AND client_id = $2
ReviewableBookingsAnyClient(booking_id, userId) ==
    {b \in bookings : b.id = booking_id /\ b.statut = "termine"}

\* a faulty SELECT that leaves out AND statut = 'termine'
ReviewableBookingsAnyStatut(booking_id, userId) ==
    {b \in bookings : b.id = booking_id /\ b.client_id = userId}

\* SELECT * FROM bookings WHERE id = $1 AND client_id = $2 AND statut = $3
ReviewableBookings(booking_id, userId) ==
    {b \in bookings : /\ b.id = booking_id
                      /\ b.client_id = userId
                      /\ b.statut = "termine"}

ReviewSelectBooking(p, hdr, booking_id, note) ==
    LET auth == AuthenticateToken(hdr, now)
        rows == ReviewableBookings(booking_id, auth.user.userId)
    IN  /\ pc[p] = "idle"
        /\ IF auth.status # 0 THEN Rejected(auth)
           ELSE /\ IF rows = {}
                   THEN /\ Respond(403,
                               "Non autorise ou reservation non terminee",
                               NoToken)
                        /\ UNCHANGED <<pc, req>>
                   ELSE /\ pc' = [pc EXCEPT ![p] = "rev_existing"]
                        /\ req' = [req EXCEPT ![p] =
                               [kind |-> "review", booking_id |-> booking_id,
                                note |-> note, user |-> auth.user,
                                prestataire_id |->
                                    (CHOOSE b \in rows : TRUE).prestataire_id,
                                review_id |-> 0]]
                        /\ UNCHANGED last
                /\ UNCHANGED <<store, now, registered, midway>>

\* SELECT id FROM reviews WHERE booking_id = $1; 400 if a row
ReviewSelectExisting(p) ==
    /\ pc[p] = "rev_existing"
    /\ IF \E r \in reviews : r.booking_id = req[p].booking_id
       THEN /\ Respond(400, "Un avis existe deja pour cette reservation",
                       NoToken)
            /\ pc' = [pc EXCEPT ![p] = "idle"]
            /\ req' = [req EXCEPT ![p] = NoReq]
       ELSE /\ pc' = [pc EXCEPT ![p] = "rev_insert"]
            /\ UNCHANGED <<req, last>>
    /\ UNCHANGED <<store, now, registered, midway>>

\* the reviews table's constraints on a new row
ReviewsInsertOk(table, row) ==
    /\ \A r \in table : r.booking_id # row.booking_id      \* UNIQUE
    /\ \E b \in bookings : b.id = row.booking_id           \* REFERENCES
    /\ row.note >= 1 /\ row.note <= 5                      \* CHECK

\* INSERT INTO reviews (booking_id, note, commentaire) ... RETURNING *
ReviewInsert(p) ==
    LET r == req[p]
        id == seq.reviews + 1
        row == [id |-> id, booking_id |-> r.booking_id, note |-> r.note]
    IN  /\ pc[p] = "rev_insert"
        /\ seq' = [seq EXCEPT !.reviews = id]
        /\ IF ReviewsInsertOk(reviews, row)
           THEN /\ reviews' = reviews \cup {row}
                /\ pc' = [pc EXCEPT ![p] = "rev_update"]
                /\ req' = [req EXCEPT ![p] = [r EXCEPT !.review_id = id]]
                /\ UNCHANGED last
           ELSE /\ ServerError
                /\ pc' = [pc EXCEPT ![p] = "idle"]
                /\ req' = [req EXCEPT ![p] = NoReq]
                /\ UNCHANGED reviews
        /\ UNCHANGED <<users, profiles, services, bookings, messages, now,
                       registered, midway>>

\* reviews r INNER JOIN bookings b ON r.booking_id = b.id
\* WHERE b.prestataire_id = prestataire_profiles.id
LinkedReviews(profileId) ==
    {r \in reviews : \E b \in bookings : /\ b.id = r.booking_id
                                         /\ b.prestataire_id = profileId}

RECURSIVE SumNotes(_)
SumNotes(rs) ==
    IF rs = {} THEN 0
    ELSE LET r == CHOOSE x \in rs : TRUE IN r.note + SumNotes(rs \ {r})

\* a faulty cast that truncates the mean to two decimals
AvgNoteTruncated(rs) ==
    LET n == Cardinality(rs)
    IN  IF n = 0 THEN -1 ELSE (100 * SumNotes(rs)) \div n

\* AVG(r.note)::numeric(3,2), in hundredths: rounded half up; NULL (-1)
\* over no row
AvgNote(rs) ==
    LET n == Cardinality(rs)
    IN  IF n = 0 THEN -1 ELSE (200 * SumNotes(rs) + n) \div (2 * n)

\* a faulty UPDATE that adds one to nombre_avis instead of counting the rows
UpdateAggregateByOne(table, profileId) ==
    {IF q.id = profileId
     THEN [q EXCEPT !.note_moyenne = AvgNote(LinkedReviews(q.id)),
                    !.nombre_avis = q.nombre_avis + 1]
     ELSE q : q \in table}

\* UPDATE prestataire_profiles SET note_moyenne = (...), nombre_avis = (...)
\* WHERE id = $1
UpdateAggregate(table, profileId) ==
    {IF q.id = profileId
     THEN [q EXCEPT !.note_moyenne = AvgNote(LinkedReviews(q.id)),
                    !.nombre_avis = Cardinality(LinkedReviews(q.id))]
     ELSE q : q \in table}

ReviewUpdateAggregate(p) ==
    /\ pc[p] = "rev_update"
    /\ profiles' = UpdateAggregate(profiles, req[p].prestataire_id)
    /\ Respond(201, "Avis ajoute avec succes", NoToken)
    /\ pc' = [pc EXCEPT ![p] = "idle"]
    /\ req' = [req EXCEPT ![p] = NoReq]
    /\ UNCHANGED <<users, services, bookings, reviews, messages, seq, now,
                   registered, midway>>

\* the store fails at the aggregate UPDATE: catch, 500
ReviewFail(p) ==
    /\ pc[p] = "rev_update"
    /\ ServerError
    /\ midway' = midway \cup {[kind |-> "review", id |-> req[p].review_id]}
    /\ pc' = [pc EXCEPT ![p] = "idle"]
    /\ req' = [req EXCEPT ![p] = NoReq]
    /\ UNCHANGED <<store, now, registered>>

\* -------------------------------------------------- /api/messages
\* SELECT m.* FROM messages m INNER JOIN users u ... WHERE m.booking_id = $1
\* ORDER BY m.created_at ASC
RECURSIVE OldestFirst(_)
OldestFirst(ids) ==
    IF ids = {} THEN <<>>
    ELSE LET m == CHOOSE i \in ids : \A j \in ids : i <= j
         IN  <<m>> \o OldestFirst(ids \ {m})

ListMessages(p, hdr, booking_id) ==
    LET auth == AuthenticateToken(hdr, now)
        rows == {m \in messages : m.booking_id = booking_id}
    IN  /\ pc[p] = "idle"
        /\ IF auth.status # 0 THEN Rejected(auth)
           ELSE /\ last' = Response(200, "messages", NoToken,
                                    OldestFirst({m.id : m \in rows}))
                /\ UNCHANGED <<store, now, pc, req, registered, midway>>

\* INSERT INTO messages (booking_id, expediteur_id, message)
SendMessage(p, hdr, booking_id, message) ==
    LET auth == AuthenticateToken(hdr, now)
        id == seq.messages + 1
    IN  /\ pc[p] = "idle"
        /\ IF auth.status # 0 THEN Rejected(auth)
           ELSE /\ seq' = [seq EXCEPT !.messages = id]
                /\ IF /\ \E b \in bookings : b.id = booking_id  \* REFERENCES
                      /\ message # Undefined                    \* NOT NULL
                   THEN /\ messages' = messages \cup
                               {[id |-> id, booking_id |-> booking_id,
                                 expediteur_id |-> auth.user.userId]}
                        /\ Respond(201, "Message envoye avec succes", NoToken)
                   ELSE ServerError /\ UNCHANGED messages
                /\ UNCHANGED <<users, profiles, services, bookings, reviews,
                               now, pc, req, registered, midway>>

\* ---------------------------------------------- GET /api/prestataires
\* the characters of the texts the directory is searched with
Chars(text) ==
    CASE text = "Ouaga" -> <<"O", "u", "a", "g", "a">>
      [] text = "Bobo" -> <<"B", "o", "b", "o">>
      [] text = "General" -> <<"G", "e", "n", "e", "r", "a", "l">>
      [] text = "Macon" -> <<"M", "a", "c", "o", "n">>
      [] text = "oua" -> <<"o", "u", "a">>
      [] text = "BO" -> <<"B", "O">>
      [] text = "mac" -> <<"m", "a", "c">>
      [] text = "_" -> <<"_">>
      [] OTHER -> <<>>

Lower(c) ==
    CASE c = "B" -> "b" [] c = "G" -> "g" [] c = "M" -> "m" [] c = "O" -> "o"
      [] OTHER -> c

\* string LIKE pattern: % matches any run, _ any one character
RECURSIVE LikeMatch(_, _)
LikeMatch(pattern, str) ==
    IF pattern = <<>> THEN str = <<>>
    ELSE IF Head(pattern) = "%"
    THEN \/ LikeMatch(Tail(pattern), str)
         \/ str # <<>> /\ LikeMatch(pattern, Tail(str))
    ELSE /\ str # <<>>
         /\ Head(pattern) = "_" \/ Lower(Head(pattern)) = Lower(Head(str))
         /\ LikeMatch(Tail(pattern), Tail(str))

\* column ILIKE `%${filter}%`; NULL matches nothing
ILike(value, filter) ==
    /\ value # Undefined
    /\ LikeMatch(<<"%">> \o Chars(filter) \o <<"%">>, Chars(value))

\* if (ville) ..., if (metier) ...: an absent or empty filter is not applied
Truthy(text) == text \notin {Undefined, ""}

\* users u INNER JOIN prestataire_profiles p ON u.id = p.user_id
\* WHERE u.role = 'prestataire' [AND u.ville ILIKE $1] [AND p.metier ILIKE $2]
DirectoryRows(ville, metier) ==
    {row \in {[u |-> u, p |-> q] : u \in users, q \in profiles} :
        /\ row.u.id = row.p.user_id
        /\ row.u.role = "prestataire"
        /\ Truthy(ville) => ILike(row.u.ville, ville)
        /\ Truthy(metier) => ILike(row.p.metier, metier)}

\* the orders ORDER BY p.note_moyenne DESC may return the rows in
RECURSIVE ByNoteDesc(_)
ByNoteDesc(rows) ==
    IF rows = {} THEN {<<>>}
    ELSE UNION {{<<row.u.id>> \o rest : rest \in ByNoteDesc(rows \ {row})} :
                row \in {r \in rows : \A o \in rows :
                             o.p.note_moyenne <= r.p.note_moyenne}}

\* LIMIT $n OFFSET $m
LimitOffset(rows, limit, offset) ==
    SubSeq(rows, offset + 1,
           IF offset + limit < Len(rows) THEN offset + limit ELSE Len(rows))

\* a query parameter: <<>> when absent, <<n>> when given
Param(given, default) == IF given = <<>> THEN default ELSE given[1]

ListProviders(p, ville, metier, page, limit) ==
    LET lim == Param(limit, DefaultLimit)
        offset == (Param(page, DefaultPage) - 1) * lim
    IN  /\ pc[p] = "idle"
        /\ IF lim < 0 \/ offset < 0     \* LIMIT/OFFSET must not be negative
           THEN ServerError
           ELSE \E order \in ByNoteDesc(DirectoryRows(ville, metier)) :
                    last' = Response(200, "prestataires", NoToken,
                                     LimitOffset(order, lim, offset))
        /\ UNCHANGED <<store, now, pc, req, registered, midway>>

\* ------------------------------------------------------------- clock
Tick ==
    /\ now' = now + 1
    /\ UNCHANGED <<store, pc, req, last, registered, midway>>

\* ------------------------------------------------------- environment
Empty ==
    /\ users = {}
    /\ profiles = {}
    /\ services = {}
    /\ bookings = {}
    /\ reviews = {}
    /\ messages = {}
    /\ seq = [users |-> 0, profiles |-> 0, services |-> 0, bookings |-> 0,
              reviews |-> 0, messages |-> 0]

Quiet ==
    /\ now = 0
    /\ pc = [p \in Procs |-> "idle"]
    /\ req = [p \in Procs |-> NoReq]
    /\ last = Response(0, "", NoToken, <<>>)
    /\ registered = {}
    /\ midway = {}

\* the server after initDatabase on a fresh database
Init == Empty /\ Quiet

Emails == {"a@x", "b@x"}
Passwords == {"pw1", "pw2", Undefined}
Roles == {"client", "prestataire", "admin"}
\* the marketplace is driven with one provider and one client
RoleOf(email) == IF email = "a@x" THEN "prestataire" ELSE "client"

FullBody == [f \in ProfileFields |-> "v"]
Valid(t) == {Bearer(tok) : tok \in Issued(t)}
ClientHeaders(t) ==
    {Bearer(tok) : tok \in {k \in Issued(t) : k.role = "client"}}

\* the statements a request in flight awaits
Continue(p, maxReviewId) ==
    \/ RegisterInsertProfile(p)
    \/ RegisterFail(p)
    \/ ReviewSelectExisting(p)
    \/ seq.reviews < maxReviewId /\ ReviewInsert(p)
    \/ ReviewUpdateAggregate(p)
    \/ ReviewFail(p)

\* ---- Spec: two concurrent clients, one provider, one client user
Next ==
    \/ \E e \in Emails : RegisterSelect("c1", e, "pw1", RoleOf(e), "Ouaga")
    \/ RegisterInsertUser("c1")
    \/ \E hdr \in Valid(now) :
           seq.services < MaxServices /\ CreateService("c1", hdr, "Coupe")
    \/ \E hdr \in ClientHeaders(now) :
           seq.bookings < MaxBookings /\ CreateBooking("c1", hdr, 1, 1)
    \/ \E hdr \in Valid(now), b \in 1..MaxBookings,
          st \in {"termine", "en_attente"} :
           UpdateBookingStatus("c1", hdr, b, st)
    \/ \E p \in Procs, hdr \in Valid(now), b \in 1..MaxBookings + 1 :
           ReviewSelectBooking(p, hdr, b, 5)
    \/ \E p \in Procs : Continue(p, MaxBookings + 1)

Spec == Init /\ [][Next]_vars

\* ---- SpecAuth: registration and login under every body
NextAuth ==
    \/ \E p \in Procs, e \in Emails, w \in {"pw1", Undefined}, r \in Roles :
           RegisterSelect(p, e, w, r, "Ouaga")
    \/ \E p \in Procs : seq.users < MaxUsers /\ RegisterInsertUser(p)
    \/ \E p \in Procs : RegisterInsertProfile(p)
    \/ \E p \in Procs : RegisterFail(p)
    \/ \E p \in Procs, e \in Emails, w \in Passwords : Login(p, e, w)
    \/ now < MaxClock /\ Tick

SpecAuth == Init /\ [][NextAuth]_vars

\* ---- SpecRatings: one client at a time, several bookings of one provider
NextRatings ==
    \/ \E e \in Emails : RegisterSelect("c1", e, "pw1", RoleOf(e), "Ouaga")
    \/ RegisterInsertUser("c1")
    \/ \E hdr \in Valid(now) :
           seq.services < MaxServices /\ CreateService("c1", hdr, "Coupe")
    \/ \E hdr \in ClientHeaders(now) :
           seq.bookings < MaxRatings /\ CreateBooking("c1", hdr, 1, 1)
    \/ \E hdr \in Valid(now), b \in 1..MaxRatings :
           UpdateBookingStatus("c1", hdr, b, "termine")
    \/ \E hdr \in ClientHeaders(now), b \in 1..MaxRatings, n \in {1, 2} :
           ReviewSelectBooking("c1", hdr, b, n)
    \/ Continue("c1", MaxRatings)

SpecRatings == Init /\ [][NextRatings]_vars

\* ---- SpecGate: one client, every endpoint behind authenticateToken,
\* every header, the clock; one service, one booking, one message
Authenticated(p, hdr) ==
    \/ UpdateProfile(p, hdr, FullBody)
    \/ seq.services = 0 /\ CreateService(p, hdr, "Coupe")
    \/ seq.bookings = 0 /\ CreateBooking(p, hdr, 1, 1)
    \/ ListBookings(p, hdr, Undefined)
    \/ UpdateBookingStatus(p, hdr, 1, "termine")
    \/ ReviewSelectBooking(p, hdr, 1, 5)
    \/ ListMessages(p, hdr, 1)
    \/ seq.messages = 0 /\ SendMessage(p, hdr, 1, "salut")

NextGate ==
    \/ \E e \in Emails : RegisterSelect("c1", e, "pw1", RoleOf(e), "Ouaga")
    \/ RegisterInsertUser("c1")
    \/ \E hdr \in Headers(now) : Authenticated("c1", hdr)
    \/ RegisterInsertProfile("c1")
    \/ ReviewSelectExisting("c1")
    \/ ReviewInsert("c1")
    \/ ReviewUpdateAggregate("c1")
    \/ now < MaxClock /\ Tick

SpecGate == Init /\ [][NextGate]_vars

\* ---- SpecMarket: one client at a time, every body of the market
\* endpoints, with the tokens of both users
MetierOnly == [f \in ProfileFields |-> IF f = "metier" THEN "Macon"
                                       ELSE Undefined]
NoBody == [f \in ProfileFields |-> Undefined]
Statuts == {"en_attente", "confirme", "annule", "termine"}
NextMarket ==
    \/ \E e \in Emails : RegisterSelect("c1", e, "pw1", RoleOf(e), "Ouaga")
    \/ RegisterInsertUser("c1")
    \/ \E hdr \in Valid(now), body \in {FullBody, MetierOnly, NoBody} :
           UpdateProfile("c1", hdr, body)
    \/ \E hdr \in Valid(now), nom \in {"Coupe", Undefined} :
           seq.services < MaxServices /\ CreateService("c1", hdr, nom)
    \/ \E hdr \in Valid(now) :
           seq.bookings < MaxBookings /\ CreateBooking("c1", hdr, 1, 1)
    \/ \E hdr \in Valid(now), b \in 1..MaxBookings :
           UpdateBookingStatus("c1", hdr, b, "termine")
    \/ \E hdr \in Valid(now), b \in 1..MaxBookings :
           ReviewSelectBooking("c1", hdr, b, 5)
    \/ \E hdr \in Valid(now) :
           seq.messages = 0 /\ SendMessage("c1", hdr, 1, "salut")
    \/ Continue("c1", MaxBookings)

SpecMarket == Init /\ [][NextMarket]_vars

\* ---- SpecBookings: one client at a time, several bookings, every statut
NextBookings ==
    \/ \E e \in Emails : RegisterSelect("c1", e, "pw1", RoleOf(e), "Ouaga")
    \/ RegisterInsertUser("c1")
    \/ RegisterInsertProfile("c1")
    \/ \E hdr \in Valid(now) :
           seq.services = 0 /\ CreateService("c1", hdr, "Coupe")
    \/ \E hdr \in Valid(now) :
           seq.bookings <= MaxBookings /\ CreateBooking("c1", hdr, 1, 1)
    \/ \E hdr \in Valid(now), st \in {Undefined, "termine"} :
           ListBookings("c1", hdr, st)
    \/ \E hdr \in Valid(now), b \in 1..MaxBookings + 2,
          st \in Statuts \cup {"invalide", Undefined} :
           UpdateBookingStatus("c1", hdr, b, st)

SpecBookings == Init /\ [][NextBookings]_vars

\* ---- SpecProviders: both users register as providers, then either books
\* provider 1 with either provider's service
BothRegistered == Cardinality(profiles) = Cardinality(Emails)

NextProviders ==
    \/ \E e \in Emails :
           RegisterSelect("c1", e, "pw1", "prestataire", "Ouaga")
    \/ RegisterInsertUser("c1")
    \/ RegisterInsertProfile("c1")
    \/ BothRegistered /\ \E hdr \in Valid(now) :
           UpdateProfile("c1", hdr, FullBody)
    \/ BothRegistered /\ \E hdr \in Valid(now) :
           seq.services < Cardinality(Emails)
               /\ CreateService("c1", hdr, "Coupe")
    \/ BothRegistered
           /\ \E hdr \in Valid(now), sid \in 1..Cardinality(Emails) :
                  seq.bookings < MaxBookings
                      /\ CreateBooking("c1", hdr, 1, sid)
    \/ \E hdr \in Valid(now), b \in 1..MaxBookings :
           UpdateBookingStatus("c1", hdr, b, "termine")
    \/ \E hdr \in Valid(now), b \in 1..MaxBookings :
           ReviewSelectBooking("c1", hdr, b, 5)
    \/ \E hdr \in Valid(now) :
           seq.messages = 0 /\ bookings # {}
               /\ SendMessage("c1", hdr, 1, "salut")
    \/ ReviewSelectExisting("c1")
    \/ seq.reviews < MaxBookings /\ ReviewInsert("c1")
    \/ ReviewUpdateAggregate("c1")
    \/ ReviewFail("c1")

SpecProviders == Init /\ [][NextProviders]_vars

\* ---- SpecList: the directory over a database of registered providers
ListVilles == {"Ouaga", "Bobo"}
ListMetiers == {"General", "Macon"}
ListNotes == {0, 450}
Listed(id, ville, metier, note) ==
    [u |-> [id |-> id, email |-> IF id = 1 THEN "a@x" ELSE "b@x",
            password |-> BcryptHash("pw1"), role |-> "prestataire",
            ville |-> ville, created_at |-> 0],
     p |-> [DefaultProfile(id, id) EXCEPT !.metier = metier,
                                          !.note_moyenne = note,
                                          !.nombre_avis = IF note = 0 THEN 0
                                                          ELSE 1]]
Directories ==
    {[i \in 1..n |-> Listed(i, v[i], m[i], r[i])] :
        n \in {MaxListed}, v \in [1..MaxListed -> ListVilles],
        m \in [1..MaxListed -> ListMetiers], r \in [1..MaxListed -> ListNotes]}

InitList ==
    /\ \E d \in Directories :
          /\ users = {d[i].u : i \in DOMAIN d}
          /\ profiles = {d[i].p : i \in DOMAIN d}
          /\ seq = [users |-> Len(d), profiles |-> Len(d), services |-> 0,
                    bookings |-> 0, reviews |-> 0, messages |-> 0]
    /\ services = {}
    /\ bookings = {}
    /\ reviews = {}
    /\ messages = {}
    /\ Quiet

Pages == {<<>>, <<1>>, <<2>>}
Limits == {<<>>, <<1>>, <<2>>}
NextList ==
    \E p \in Procs, v \in {Undefined, "oua", "BO", "_"},
       m \in {Undefined, "mac"}, page \in Pages, limit \in Limits :
        ListProviders(p, v, m, page, limit)

SpecList == InitList /\ [][NextList]_vars

\* ================================================================ claims

\* C1: a Register whose email some stored user already has answers 400
\* "Email deja utilise" and leaves the users and the profiles tables as
\* they were; the request ends there.
C1_RegisterConflict ==
    [][\A p \in Procs, e \in Emails, w \in {"pw1", Undefined}, r \in Roles :
          ((\E u \in users : u.email = e) /\ RegisterSelect(p, e, w, r, "Ouaga"))
              => /\ last' = Response(400, "Email deja utilise", NoToken, <<>>)
                 /\ users' = users
                 /\ profiles' = profiles
                 /\ pc'[p] = "idle"]_vars

\* a Register was answered 400 while its email was stored
C1_ConflictAnswered ==
    /\ last = Response(400, "Email deja utilise", NoToken, <<>>)
    /\ users # {}

\* C2: in every reachable state no two stored users have the same email,
\* also when two Registers with one email both pass the SELECT before
\* either INSERT.
C2_EmailUnique ==
    \A u \in users, v \in users : u.email = v.email => u = v

\* two Registers with one email passed the SELECT, one has inserted and
\* been answered 201, the other is about to INSERT
C2_SecondInsertPending ==
    \E p \in Procs :
        /\ pc[p] = "reg_insert"
        /\ \E u \in users : u.email = req[p].email
        /\ \E r \in registered : r.email = req[p].email

C4_LoginSameClaims ==
    [][\A p \in Procs, e \in Emails, w \in Passwords :
          \A r \in registered :
              (r.email = e /\ r.password = w /\ Login(p, e, w))
                  => /\ last'.status = 200
                     /\ Claims(last'.token) =
                            [userId |-> r.userId, email |-> r.email,
                             role |-> r.role]]_vars

\* a prestataire who registered at instant 0 has logged in at a later one
C4_ProviderLoggedIn ==
    /\ last.status = 200
    /\ last.text = "Connexion reussie"
    /\ last.token.role = "prestataire"
    /\ last.token.exp > TokenTTL

\* C5 as stated: a Login whose password does not match is answered the
\* generic 401, the answer is the one the store without any user of that
\* email gives, and no stored state changes.
C5_NoExistenceLeak ==
    [][\A p \in Procs, e \in Emails, w \in Passwords :
          (/\ Login(p, e, w)
           /\ \A u \in users : u.email = e => u.password # BcryptHash(w))
              => LET without == {u \in users : u.email # e}
                     other == LoginOutcome(without, e, w, now)
                 IN  /\ last' = Response(401,
                                    "Email ou mot de passe incorrect",
                                    NoToken, <<>>)
                     /\ last' = Response(other.status, other.error,
                                         other.token, <<>>)
                     /\ store' = store]_vars

\* C6: a Create review for a booking that does not exist, whose client is
\* not the caller, or whose statut is not "termine" is answered 403; no
\* review is inserted and no profile (note_moyenne, nombre_avis) changes.
C6_ReviewForbidden ==
    [][\A hdr \in Valid(now), id \in 1..MaxBookings + 1, p \in Procs :
          (/\ \/ \A b \in bookings : b.id # id
              \/ \E b \in bookings : b.id = id /\ b.client_id # hdr[2].userId
              \/ \E b \in bookings : b.id = id /\ b.statut # "termine"
           /\ ReviewSelectBooking(p, hdr, id, 5))
              => /\ last' = Response(403,
                                "Non autorise ou reservation non terminee",
                                NoToken, <<>>)
                 /\ reviews' = reviews
                 /\ profiles' = profiles
                 /\ pc'[p] = "idle"]_vars

\* a Create review was answered 403 while a completed booking existed
\* (asked by its provider, or for another id) and nothing was reviewed
C6_ForbiddenAnswered ==
    /\ last = Response(403, "Non autorise ou reservation non terminee",
                       NoToken, <<>>)
    /\ \E b \in bookings : b.statut = "termine"
    /\ reviews = {}

\* C7 as stated: a Create review that ends while its booking has a review
\* already is answered 400.
C7_SecondReviewConflict ==
    [][\A p \in Procs :
          (/\ pc[p] \in {"rev_existing", "rev_insert"}
           /\ pc'[p] = "idle"
           /\ \E r \in reviews : r.booking_id = req[p].booking_id)
              => last'.status = 400]_vars

C9_SubstringPage ==
    [][\A p \in Procs, v \in {Undefined, "oua", "BO", "_"},
          m \in {Undefined, "mac"}, page \in Pages, limit \in Limits :
          ListProviders(p, v, m, page, limit)
              => LET L == IF limit = <<>> THEN 10 ELSE limit[1]
                     P == IF page = <<>> THEN 1 ELSE page[1]
                     contains(text, part) ==
                         part # Undefined =>
                             /\ text # Undefined
                             /\ \E i \in 0..(Len(Chars(text)) - Len(Chars(part))) :
                                    \A j \in 1..Len(Chars(part)) :
                                        Lower(Chars(text)[i + j])
                                            = Lower(Chars(part)[j])
                     note(id) == (CHOOSE q \in profiles : q.user_id = id).note_moyenne
                     matching == {u.id : u \in {x \in users :
                                     /\ x.role = "prestataire"
                                     /\ \E q \in profiles :
                                            /\ q.user_id = x.id
                                            /\ contains(q.metier, m)
                                     /\ contains(x.ville, v)}}
                     n == Cardinality(matching)
                 IN  /\ last'.status = 200
                     /\ Len(last'.rows) <= L
                     /\ \E all \in [1..n -> matching] :
                            /\ \A i \in 1..n, j \in 1..n :
                                   i < j => /\ all[i] # all[j]
                                            /\ note(all[i]) >= note(all[j])
                            /\ last'.rows =
                                   [k \in 1..(IF P * L < n THEN L
                                              ELSE IF n > (P - 1) * L
                                              THEN n - (P - 1) * L ELSE 0)
                                       |-> all[(P - 1) * L + k]]]_vars

\* C10: a request to an authenticated endpoint without a bearer token is
\* answered 401 "Token requis", one with a forged or expired token 403
\* "Token invalide", and neither changes the store or starts the handler;
\* with a valid token the middleware passes, and the handler works with
\* the claims of that token.
C10_Gate ==
    [][\A hdr \in Headers(now) :
          Authenticated("c1", hdr)
              => LET tok == IF Len(hdr) >= 2 THEN hdr[2] ELSE NoToken
                     absent == hdr \in {NoHeader, <<SchemePart>>,
                                        Bearer(EmptyToken)}
                     valid == ~absent /\ tok.sig = "hs256" /\ now < tok.exp
                 IN  /\ absent =>
                            /\ last' = Response(401, "Token requis",
                                                NoToken, <<>>)
                            /\ UNCHANGED <<store, pc, req>>
                     /\ (~absent /\ ~valid) =>
                            /\ last' = Response(403, "Token invalide",
                                                NoToken, <<>>)
                            /\ UNCHANGED <<store, pc, req>>
                     /\ valid =>
                            /\ last' # last =>
                                   last'.text \notin {"Token requis",
                                                      "Token invalide"}
                            /\ \A b \in bookings' :
                                   (\A x \in bookings : x.id # b.id)
                                       => b.client_id = tok.userId
                            /\ \A m \in messages' \ messages :
                                   m.expediteur_id = tok.userId
                            /\ req'["c1"] # req["c1"] =>
                                   req'["c1"].user = Claims(tok)]_vars

\* a forged or expired token was turned down at the last instant, with
\* bookings and messages in the store
C10_ExpiredRejected ==
    /\ last = Response(403, "Token invalide", NoToken, <<>>)
    /\ now = MaxClock
    /\ bookings # {}
    /\ messages # {}

\* C11 as stated: List bookings answers exactly the bookings whose client
\* is the caller or whose profile (prestataire_id) is owned by the caller,
\* of the given statut when one is given, newest first.
C11_ListOwnBookings ==
    [][\A hdr \in Valid(now), st \in {Undefined, "termine"} :
          ListBookings("c1", hdr, st)
              => LET me == hdr[2].userId
                     mine == {b \in bookings :
                                 /\ \/ b.client_id = me
                                    \/ \E q \in profiles :
                                           /\ q.id = b.prestataire_id
                                           /\ q.user_id = me
                                 /\ st # Undefined => b.statut = st}
                 IN  /\ last'.status = 200
                     /\ Len(last'.rows) = Cardinality(mine)
                     /\ {last'.rows[i] : i \in 1..Len(last'.rows)}
                            = {b.id : b \in mine}
                     /\ \A i \in 1..Len(last'.rows), j \in 1..Len(last'.rows) :
                            i < j => last'.rows[i] > last'.rows[j]]_vars

\* C12: Update booking status by any authenticated caller, with any of the
\* four statuts, sets the statut of the booking of the given id, whatever
\* it was, answers 200 and changes no other booking; when no booking has
\* the id it answers 404 and changes no booking.
C12_StatusSetByAnyone ==
    [][\A hdr \in Valid(now), id \in 1..MaxBookings + 2, st \in Statuts :
          UpdateBookingStatus("c1", hdr, id, st)
              => IF \E b \in bookings : b.id = id
                 THEN /\ last' = Response(200, "Statut mis a jour avec succes",
                                          NoToken, <<>>)
                      /\ bookings' = {IF b.id = id
                                      THEN [b EXCEPT !.statut = st]
                                      ELSE b : b \in bookings}
                 ELSE /\ last' = Response(404, "Reservation non trouvee",
                                          NoToken, <<>>)
                      /\ bookings' = bookings]_vars

\* one booking was cancelled while another stayed pending
C12_OneOfTwoUpdated ==
    /\ last = Response(200, "Statut mis a jour avec succes", NoToken, <<>>)
    /\ \E b \in bookings, c \in bookings :
           /\ b.id # c.id
           /\ b.statut = "annule"
           /\ c.statut = "en_attente"

\* C13 (amended): Update own profile by a caller who has a profile, with a
\* body that gives metier, sets each of the eight editable fields to the
\* body's value, NULL for an omitted one, keeps the other columns and the
\* other profiles, and answers 200; a body without metier is answered 500
\* and a caller without profile 404, and neither changes any profile.
C13_FullReplace ==
    [][\A hdr \in Valid(now), body \in {FullBody, MetierOnly, NoBody} :
          UpdateProfile("c1", hdr, body)
              => LET me == hdr[2].userId
                     own == {q \in profiles : q.user_id = me}
                 IN  IF own = {}
                     THEN /\ last' = Response(404, "Profil non trouve",
                                              NoToken, <<>>)
                          /\ profiles' = profiles
                     ELSE IF body.metier = Undefined
                     THEN /\ last'.status = 500
                          /\ profiles' = profiles
                     ELSE /\ last' = Response(200,
                                         "Profil mis a jour avec succes",
                                         NoToken, <<>>)
                          /\ profiles' \ {q \in profiles' : q.user_id = me}
                                 = profiles \ own
                          /\ \A q \in own :
                                 \E n \in profiles' :
                                     /\ n.id = q.id
                                     /\ n.user_id = me
                                     /\ n.note_moyenne = q.note_moyenne
                                     /\ n.nombre_avis = q.nombre_avis
                                     /\ \A f \in ProfileFields : n[f] = body[f]
                          /\ Cardinality(profiles') = Cardinality(profiles)]_vars

\* a rated provider's profile after an update that gave only metier
C13_OmittedFieldsNull ==
    /\ last = Response(200, "Profil mis a jour avec succes", NoToken, <<>>)
    /\ \E q \in profiles : /\ q.metier = "Macon"
                           /\ q.description = Undefined
                           /\ q.nombre_avis = 1

\* C13 as stated: Update own profile by a caller who has a profile sets
\* every editable field to the body's value, NULL for an omitted one, and
\* answers 200; without profile it answers 404 and changes no profile.
C13_EveryOmittedFieldNull ==
    [][\A hdr \in Valid(now), body \in {FullBody, MetierOnly, NoBody} :
          UpdateProfile("c1", hdr, body)
              => LET me == hdr[2].userId
                     own == {q \in profiles : q.user_id = me}
                 IN  IF own = {}
                     THEN /\ last'.status = 404
                          /\ profiles' = profiles
                     ELSE /\ last'.status = 200
                          /\ \A n \in profiles' :
                                 n.user_id = me =>
                                     \A f \in ProfileFields : n[f] = body[f]]_vars

\* C14 (amended): Create service answers 403 unless the caller's stored
\* role is prestataire, 404 when the caller has no profile, 500 when the
\* body has no nom_service, and inserts nothing in these cases; otherwise
\* it answers 201 and inserts exactly one service, whose prestataire_id is
\* the caller's own profile.
C14_ServiceUnderOwnProfile ==
    [][\A hdr \in Valid(now), nom \in {"Coupe", Undefined} :
          CreateService("c1", hdr, nom)
              => LET me == hdr[2].userId
                     own == {q \in profiles : q.user_id = me}
                     added == services' \ services
                 IN  IF \E u \in users : u.id = me /\ u.role # "prestataire"
                     THEN /\ last' = Response(403,
                                         "Acces reserve aux prestataires",
                                         NoToken, <<>>)
                          /\ services' = services
                     ELSE IF own = {}
                     THEN /\ last' = Response(404,
                                         "Profil prestataire non trouve",
                                         NoToken, <<>>)
                          /\ services' = services
                     ELSE IF nom = Undefined
                     THEN /\ last'.status = 500
                          /\ services' = services
                     ELSE /\ last' = Response(201, "Service cree avec succes",
                                              NoToken, <<>>)
                          /\ services \subseteq services'
                          /\ Cardinality(added) = 1
                          /\ \A x \in added :
                                 \E q \in own : x.prestataire_id = q.id]_vars

\* a provider whose profile id is not their user id has created a service
C14_ServiceCreated ==
    /\ last = Response(201, "Service cree avec succes", NoToken, <<>>)
    /\ \E x \in services, q \in profiles :
           /\ x.prestataire_id = q.id
           /\ q.user_id # q.id

\* C14 as stated: Create service answers 403 unless the caller's stored
\* role is prestataire and 404 when the caller has no profile, inserting
\* nothing; otherwise it inserts exactly one service, of the caller's own
\* profile.
C14_OtherwiseInserted ==
    [][\A hdr \in Valid(now), nom \in {"Coupe", Undefined} :
          CreateService("c1", hdr, nom)
              => LET me == hdr[2].userId
                     own == {q \in profiles : q.user_id = me}
                     added == services' \ services
                 IN  IF \E u \in users : u.id = me /\ u.role # "prestataire"
                     THEN last'.status = 403 /\ services' = services
                     ELSE IF own = {}
                     THEN last'.status = 404 /\ services' = services
                     ELSE /\ Cardinality(added) = 1
                          /\ \A x \in added :
                                 \E q \in own : x.prestataire_id = q.id]_vars

\* C15: after a Create review has failed between its INSERT and its UPDATE,
\* a Create review that completes for the same profile sets nombre_avis to
\* the number and note_moyenne to the mean, rounded to two decimals, of all
\* the reviews linked through the profile's bookings, the review of the
\* failed request among them.
C15_SelfHeal ==
    [][\A p \in Procs :
          (/\ \E m \in midway : m.kind = "review"
           /\ ReviewUpdateAggregate(p))
              => \A q \in profiles' :
                     q.id = req[p].prestataire_id =>
                         LET linked == {r \in reviews' :
                                           \E b \in bookings' :
                                               /\ b.id = r.booking_id
                                               /\ b.prestataire_id = q.id}
                             N == Cardinality(linked)
                             S == SumNotes(linked)
                         IN  /\ \A m \in midway :
                                    m.kind = "review" =>
                                        \E r \in linked : r.id = m.id
                             /\ q.nombre_avis = N
                             /\ 2 * N * q.note_moyenne - N <= 200 * S
                             /\ 200 * S < 2 * N * q.note_moyenne + N]_vars

\* a review failed midway, a later one completed, and the profile counts
\* both
C15_Healed ==
    /\ \A p \in Procs : pc[p] = "idle"
    /\ last = Response(201, "Avis ajoute avec succes", NoToken, <<>>)
    /\ \E m \in midway : m.kind = "review" /\ \E r \in reviews : r.id = m.id
    /\ \E q \in profiles : /\ q.nombre_avis = Cardinality(reviews)
                           /\ q.nombre_avis >= 2

\* C16 (amended): every stored review is tied to exactly one booking, and
\* a review is inserted only by a request whose booking SELECT found that
\* booking with statut "termine" and the caller as client.
C16_ReviewOfCheckedBooking ==
    [][/\ \A r \in reviews' :
             Cardinality({b \in bookings' : b.id = r.booking_id}) = 1
       /\ \A r \in reviews' \ reviews :
             \E p \in Procs : /\ pc[p] = "rev_insert"
                              /\ req[p].booking_id = r.booking_id
       /\ \A p \in Procs :
             (pc[p] = "idle" /\ pc'[p] # "idle" /\ req'[p].kind = "review")
                 => \E b \in bookings :
                        /\ b.id = req'[p].booking_id
                        /\ b.statut = "termine"
                        /\ b.client_id = req'[p].user.userId]_vars

\* a review of a completed booking is stored and aggregated
C16_ReviewStored ==
    /\ last = Response(201, "Avis ajoute avec succes", NoToken, <<>>)
    /\ \E r \in reviews, b \in bookings :
           b.id = r.booking_id /\ b.statut = "termine"

\* C16 as stated: in every reachable state every stored review is tied to
\* exactly one booking, whose statut is "termine".
C16_ReviewedBookingCompleted ==
    \A r \in reviews :
        /\ Cardinality({b \in bookings : b.id = r.booking_id}) = 1
        /\ \A b \in bookings : b.id = r.booking_id => b.statut = "termine"

\* C17 as stated: in every reachable state every booking's statut is one
\* of en_attente, confirme, annule, termine.
C17_StatusInDomain ==
    \A b \in bookings : b.statut \in Statuts

\* C18: a step changes the note_moyenne or the nombre_avis of a profile only
\* when it is the aggregate UPDATE of a review request answered 201, and
\* then the profile is the one named by the reviewed booking; every other
\* step, and every request answered with an error, leaves both unchanged.
C18_AggregatesFrame ==
    [][\A q \in profiles, r \in profiles' :
          (q.id = r.id /\ (q.note_moyenne # r.note_moyenne
                              \/ q.nombre_avis # r.nombre_avis))
          => \E p \in Procs :
                 /\ ReviewUpdateAggregate(p)
                 /\ last'.status = 201
                 /\ \E b \in bookings : /\ b.id = req[p].booking_id
                                        /\ b.prestataire_id = q.id]_vars

\* C18 witness: after a review, the reviewed provider updated the profile
\* and kept the rating; the other provider's profile is still unrated.
C18_KeptAfterProfileUpdate ==
    /\ last.text = "Profil mis a jour avec succes"
    /\ \E q \in profiles : /\ q.nombre_avis = 1
                           /\ q.note_moyenne = 500
                           /\ q.metier = FullBody.metier
    /\ \E q \in profiles : q.nombre_avis = 0
    /\ messages # {}

\* C19 as stated: in every reachable state the service of every booking is
\* a service of the booking's provider.
C19_ServiceOfBookedProvider ==
    \A b \in bookings :
        \E s \in services : /\ s.id = b.service_id
                            /\ s.prestataire_id = b.prestataire_id
====
